---------------------------- MODULE Spec2Model ----------------------------
(* Embedded MQL in YAML documents (src/src/embeddedMQL.ts): region         *)
(* detection, document masking, the per-document cache, the document       *)
(* synchronisation middleware (didOpen / didChange / didClose), the        *)
(* region gate and the formatting transformer.                             *)
(*                                                                         *)
(* A text is a sequence of one-character strings, so that split("\n"),     *)
(* join("\n"), trim() and the introducer regular expression are computed   *)
(* on characters as the code computes them.  Line numbers are 0-based as   *)
(* in the source; a sequence of lines is indexed from 1, so JavaScript's   *)
(* lines[i] is At(lines, i).                                               *)
EXTENDS Integers, Sequences, FiniteSets, TLC

(* ------------------------------ bounds -------------------------------- *)

\* Longest text, in lines, that the function specification enumerates.
MaxLines == 4

\* Host events (open, change, close, formatting request) delivered in one
\* behaviour of the middleware specifications.
MaxEvents == 4

(* ---------------------------- characters ------------------------------ *)

NL == "\n"

\* JavaScript's \s and trim() on the characters the model uses.
IsSpace(c) == c \in {" ", "\t", "\r", "\n"}

\* The literal key of the introducer pattern, /source:/.
SourceKey == <<"s", "o", "u", "r", "c", "e", ":">>

(* ----------------------- String.prototype helpers --------------------- *)

\* text.split("\n"): always at least one line; "a\n" gives <<"a", "">>.
RECURSIVE Split(_)
Split(t) ==
  IF t = <<>> THEN << <<>> >>
  ELSE IF Head(t) = NL THEN << <<>> >> \o Split(Tail(t))
  ELSE LET r == Split(Tail(t))
       IN  << <<Head(t)>> \o Head(r) >> \o Tail(r)

\* lines.join("\n")
RECURSIVE Join(_)
Join(ls) ==
  IF Len(ls) = 0 THEN <<>>
  ELSE IF Len(ls) = 1 THEN ls[1]
  ELSE ls[1] \o <<NL>> \o Join(Tail(ls))

\* JavaScript's lines[i], i counted from 0.
At(ls, i) == ls[i + 1]

\* line.match(/^\s*/)[0].length: the number of leading white-space characters.
RECURSIVE LeadingSpaces(_)
LeadingSpaces(l) ==
  IF l = <<>> \/ ~IsSpace(Head(l)) THEN 0 ELSE 1 + LeadingSpaces(Tail(l))

\* line.trim() === ""
IsBlank(l) == \A k \in 1..Len(l) : IsSpace(l[k])

\* The line from its k-th character (counted from 0) on.
Drop(l, k) == SubSeq(l, k + 1, Len(l))

StartsWith(l, p) == Len(l) >= Len(p) /\ SubSeq(l, 1, Len(p)) = p

\* line.match(/^(\s*)source:\s*[|>][-+]?\s*$/)
IntroducerMatch(l) ==
  LET a == Drop(l, LeadingSpaces(l))
  IN  /\ StartsWith(a, SourceKey)
      /\ LET b == Drop(a, Len(SourceKey))
             c == Drop(b, LeadingSpaces(b))
         IN  /\ c # <<>>
             /\ Head(c) \in {"|", ">"}
             /\ LET d == Tail(c)
                    e == IF d # <<>> /\ Head(d) \in {"-", "+"} THEN Tail(d) ELSE d
                IN  IsBlank(e)

(* ------------------------------ regions ------------------------------- *)

\* JavaScript's undefined.
Undefined == [undefined |-> TRUE]

Region(s, e) == [startLine |-> s, endLine |-> e]

\* ScanBlock with the indentation test off by one: a line indented exactly
\* contentIndent ends the block.
RECURSIVE ScanBlock_EndsAtContentIndent(_, _, _, _)
ScanBlock_EndsAtContentIndent(lines, j, endLine, contentIndent) ==
  IF j >= Len(lines) THEN endLine
  ELSE IF IsBlank(At(lines, j))
         THEN ScanBlock_EndsAtContentIndent(lines, j + 1, j, contentIndent)
  ELSE IF LeadingSpaces(At(lines, j)) <= contentIndent
         THEN endLine
  ELSE ScanBlock_EndsAtContentIndent(lines, j + 1, j, contentIndent)

\* The inner for loop of detectMQLRegion (lines 66-85): the value of endLine
\* when the loop is left, entered at j with the current endLine.
RECURSIVE ScanBlock(_, _, _, _)
ScanBlock(lines, j, endLine, contentIndent) ==
  IF j >= Len(lines) THEN endLine
  ELSE IF IsBlank(At(lines, j))
         THEN ScanBlock(lines, j + 1, j, contentIndent)
  ELSE IF LeadingSpaces(At(lines, j)) < contentIndent
         THEN endLine
  ELSE ScanBlock(lines, j + 1, j, contentIndent)

\* DetectFrom that goes on to the next introducer when the line after this
\* one is no content line.
RECURSIVE DetectFrom_SkipsBlockWithoutContent(_, _)
DetectFrom_SkipsBlockWithoutContent(lines, i) ==
  IF i >= Len(lines) THEN Undefined
  ELSE IF ~IntroducerMatch(At(lines, i))
         THEN DetectFrom_SkipsBlockWithoutContent(lines, i + 1)
  ELSE LET contentIndent == LeadingSpaces(At(lines, i)) + 2
           startLine     == i + 1
       IN  IF startLine >= Len(lines) THEN Undefined
           ELSE IF \/ IsBlank(At(lines, startLine))
                   \/ LeadingSpaces(At(lines, startLine)) < contentIndent
                  THEN DetectFrom_SkipsBlockWithoutContent(lines, i + 1)
           ELSE Region(startLine, ScanBlock(lines, startLine, startLine, contentIndent))

\* The outer for loop of detectMQLRegion (lines 45-94), entered at i.
RECURSIVE DetectFrom(_, _)
DetectFrom(lines, i) ==
  IF i >= Len(lines) THEN Undefined
  ELSE IF ~IntroducerMatch(At(lines, i)) THEN DetectFrom(lines, i + 1)
  ELSE LET keyIndent     == LeadingSpaces(At(lines, i))
           contentIndent == keyIndent + 2
           startLine     == i + 1
       IN  IF startLine >= Len(lines) THEN Undefined
           ELSE LET endLine == ScanBlock(lines, startLine, startLine, contentIndent)
                IN  IF endLine >= startLine
                      THEN Region(startLine, endLine)
                      ELSE DetectFrom(lines, i + 1)

detectMQLRegion(text) == DetectFrom(Split(text), 0)

\* MaskLines with the restoring loop stopping one line early
\* (lineNum < region.endLine).
MaskLines_StopsEarly(lines, region) ==
  [n \in 1..Len(lines) |->
     IF region # Undefined /\ region.startLine <= n - 1 /\ n - 1 < region.endLine
       THEN lines[n]
       ELSE <<>>]

\* MaskLines that leaves the text as it is when there is no region.
MaskLines_UnmaskedWhenAbsent(lines, region) ==
  [n \in 1..Len(lines) |->
     IF region = Undefined \/ (region.startLine <= n - 1 /\ n - 1 <= region.endLine)
       THEN lines[n]
       ELSE <<>>]

\* maskedLines after the restoring loop of maskDocument (lines 116-125).
MaskLines(lines, region) ==
  [n \in 1..Len(lines) |->
     IF region # Undefined /\ region.startLine <= n - 1 /\ n - 1 <= region.endLine
       THEN lines[n]
       ELSE <<>>]

\* maskDocument that ends the masked text with a line break of its own.
maskDocument_TrailingNewline(text, region) ==
  Join(MaskLines(Split(text), region)) \o <<NL>>

\* maskDocument(text, region) (lines 104-128).
maskDocument(text, region) == Join(MaskLines(Split(text), region))

\* A vscode.Position.
Position(line, character) == [line |-> line, character |-> character]

\* isInsideEmbeddedMQLRegion(position, region) (lines 133-141).
isInsideEmbeddedMQLRegion(position, region) ==
  IF region = Undefined THEN FALSE
  ELSE position.line >= region.startLine /\ position.line <= region.endLine


(* --------------------------- host documents --------------------------- *)

YamlUri == "a.yml"

MqlUri == "q.mql"

Uris == {YamlUri, MqlUri}

\* document.languageId; "messageQueryLanguage" is languageID of the extension.
LanguageId(u) == IF u = YamlUri THEN "yaml" ELSE "messageQueryLanguage"

LineX == <<"x">>

LineSource0 == SourceKey \o <<" ", "|">>

LineSource2 == <<" ", " ">> \o SourceKey \o <<" ", ">">>

LineA2 == <<" ", " ", "a">>

LineB4 == <<" ", " ", " ", " ", "b">>

\* "x": no introducer.
TextPlain == LineX

\* "source: |\n  a\nx": introducer at line 0, block line 1.
TextBlock0 == Join(<<LineSource0, LineA2, LineX>>)

\* "x\n  source: >\n    b\n    b": introducer indented two, block lines 2-3.
TextBlock2 == Join(<<LineX, LineSource2, LineB4, LineB4>>)

\* The texts a YAML host document of the middleware specifications may hold.
HostTexts == {TextPlain, TextBlock0, TextBlock2}

\* The texts the document of u may hold; one text stands for an MQL document,
\* and it holds an introducer so that only the language decides its handling.
TextsOf(u) == IF LanguageId(u) = "yaml" THEN HostTexts ELSE {TextBlock0}

\* Whether a send of a handler for u may succeed (TRUE) or fail (FALSE); a
\* failed send is drawn only where the middleware has state to get wrong.
Outcomes(u) == IF LanguageId(u) = "yaml" THEN BOOLEAN ELSE {TRUE}

(* ------------------------------- state -------------------------------- *)

VARIABLES
  doc,                             \* the host's TextDocument per uri
  embeddedMQLDocumentCache,        \* Map<string, EmbeddedMQLDocumentCache>
  embeddedMQLOpenedYAMLDocuments,  \* Set<string>
  wire,                            \* notifications emitted to the service, in order
  pending,                         \* handlers suspended at an await of a send, FIFO
  formatting,                      \* per uri: the formatting handler suspended at await next
  ret,                             \* what the handler that ran last returned
  events,                          \* the host events delivered so far
  active,                          \* FALSE once cleanupEmbeddedMQL ran (deactivate)
  fn                               \* the function specification's input and output

vars == <<doc, embeddedMQLDocumentCache, embeddedMQLOpenedYAMLDocuments, wire,
          pending, formatting, ret, events, active, fn>>

mwVars == <<doc, embeddedMQLDocumentCache, embeddedMQLOpenedYAMLDocuments, wire,
            pending, formatting, ret, events, active>>

NoDoc == [open |-> FALSE, version |-> 0, text |-> <<>>]

Init ==
  /\ doc = [u \in Uris |-> NoDoc]
  /\ embeddedMQLDocumentCache = [u \in Uris |-> Undefined]
  /\ embeddedMQLOpenedYAMLDocuments = {}
  /\ wire = <<>>
  /\ pending = <<>>
  /\ formatting = [u \in Uris |-> Undefined]
  /\ ret = Undefined
  /\ events = <<>>
  /\ active = TRUE
  /\ fn = [op |-> "none"]

(* ------------------------- Document State Cache ----------------------- *)

\* FreshEntry that masks without the region it detected.
FreshEntry_MaskedWithoutRegion(d) ==
  [version |-> d.version, region |-> detectMQLRegion(d.text),
   maskedText |-> maskDocument(d.text, Undefined)]

\* The fresh entry of getEmbeddedMQLCachedDocumentData (lines 184-192).
FreshEntry(d) ==
  LET region == detectMQLRegion(d.text)
  IN  [version |-> d.version, region |-> region,
       maskedText |-> maskDocument(d.text, region)]

\* CacheHit without the version comparison: any stored entry is returned.
CacheHit_AnyVersion(cached, d) == cached # Undefined

\* Whether the stored entry is returned as it is (line 179).
CacheHit(cached, d) == cached # Undefined /\ cached.version = d.version

\* The value getEmbeddedMQLCachedDocumentData(document) returns, the map being c.
getEmbeddedMQLCachedDocumentData(c, u, d) ==
  IF CacheHit(c[u], d) THEN c[u] ELSE FreshEntry(d)

\* CacheAfterGet that keeps no entry for a text without a region.
CacheAfterGet_ForgetsWithoutRegion(c, u, d) ==
  LET entry == getEmbeddedMQLCachedDocumentData(c, u, d)
  IN  [c EXCEPT ![u] = IF entry.region = Undefined THEN Undefined ELSE entry]

\* The map after getEmbeddedMQLCachedDocumentData(document) (line 194).
CacheAfterGet(c, u, d) ==
  [c EXCEPT ![u] = getEmbeddedMQLCachedDocumentData(c, u, d)]

(* --------------------------- notifications ---------------------------- *)

\* A notification on the wire; ev is the number of the host event whose
\* handler sent it.
Notification(method, u, version, text, ev) ==
  [method |-> method, uri |-> u, version |-> version, text |-> text, ev |-> ev]

\* A textDocument/didChange on the wire: contentChanges is a list of entries,
\* an entry without a range replaces the whole document by its text.
ChangeNotification(u, version, contentChanges, ev) ==
  [method |-> "textDocument/didChange", uri |-> u, version |-> version,
   contentChanges |-> contentChanges, ev |-> ev]

\* The notification a handler's send puts on the wire (lines 220-227,
\* 252-259, 267-277); the model's host changes replace the whole text.
Emitted(method, u, version, text, ev) ==
  IF method = "textDocument/didChange"
    THEN ChangeNotification(u, version, <<[text |-> text]>>, ev)
    ELSE Notification(method, u, version, text, ev)

\* A delivered host event, with the document's version and text at the event;
\* sent tells how its handler's send ended.
Event(kind, u, d, sent) ==
  [kind |-> kind, uri |-> u, version |-> d.version, text |-> d.text,
   region |-> detectMQLRegion(d.text) # Undefined, sent |-> sent]

CanDeliver == active /\ Len(events) < MaxEvents


(* ----------------------- Lifecycle Synchronizer ----------------------- *)

\* What the synchronous part of a handler (up to its await) does: the cache
\* map it leaves, the notification it sends ("" for none) with its text,
\* and what runs after the await ("" for nothing): "add" the uri to the
\* opened-set, or "drop" it from the opened-set and the cache.
Step(cache, method, text, after) ==
  [cache |-> cache, method |-> method, text |-> text, after |-> after]

\* next(...) of a non-YAML document: the client library sends the host's own
\* notification; the handler only returns what next returns.
PassThrough(c, method, d) == Step(c, method, d.text, "")

\* didOpen that sends the host's text instead of the masked text.
didOpen_SendsHostText(c, opened, u, d) ==
  IF LanguageId(u) # "yaml" THEN PassThrough(c, "textDocument/didOpen", d)
  ELSE IF u \in opened THEN Step(c, "", <<>>, "")
  ELSE LET cache == getEmbeddedMQLCachedDocumentData(c, u, d)
           c2    == CacheAfterGet(c, u, d)
       IN  IF cache.region = Undefined THEN Step(c2, "", <<>>, "")
           ELSE Step(c2, "textDocument/didOpen", d.text, "add")

\* didOpen (lines 206-231).
didOpen(c, opened, u, d) ==
  IF LanguageId(u) # "yaml" THEN PassThrough(c, "textDocument/didOpen", d)
  ELSE IF u \in opened THEN Step(c, "", <<>>, "")
  ELSE LET cache == getEmbeddedMQLCachedDocumentData(c, u, d)
           c2    == CacheAfterGet(c, u, d)
       IN  IF cache.region = Undefined THEN Step(c2, "", <<>>, "")
           ELSE Step(c2, "textDocument/didOpen", cache.maskedText, "add")

\* didChange without the lazy open: a change of a document that is not in the
\* opened-set and has a region is sent as a didChange.
didChange_NoLazyOpen(c, opened, u, d) ==
  IF LanguageId(u) # "yaml" THEN PassThrough(c, "textDocument/didChange", d)
  ELSE LET cache == getEmbeddedMQLCachedDocumentData(c, u, d)
           c2    == CacheAfterGet(c, u, d)
       IN  IF cache.region = Undefined /\ u \notin opened
             THEN Step(c2, "", <<>>, "")
           ELSE Step(c2, "textDocument/didChange", cache.maskedText, "")

\* didChange that opens the document on the service whether or not the new
\* text has a region.
didChange_OpensWithoutRegion(c, opened, u, d) ==
  IF LanguageId(u) # "yaml" THEN PassThrough(c, "textDocument/didChange", d)
  ELSE LET cache == getEmbeddedMQLCachedDocumentData(c, u, d)
           c2    == CacheAfterGet(c, u, d)
       IN  IF u \notin opened
             THEN Step(c2, "textDocument/didOpen", cache.maskedText, "add")
             ELSE Step(c2, "textDocument/didChange", cache.maskedText, "")

\* didChange that sends nothing when the new text has no region, also for a
\* document that is in the opened-set.
didChange_SilentWithoutRegion(c, opened, u, d) ==
  IF LanguageId(u) # "yaml" THEN PassThrough(c, "textDocument/didChange", d)
  ELSE LET cache == getEmbeddedMQLCachedDocumentData(c, u, d)
           c2    == CacheAfterGet(c, u, d)
       IN  IF cache.region = Undefined THEN Step(c2, "", <<>>, "")
           ELSE IF u \notin opened
             THEN Step(c2, "textDocument/didOpen", cache.maskedText, "add")
           ELSE Step(c2, "textDocument/didChange", cache.maskedText, "")

\* didChange (lines 232-278).
didChange(c, opened, u, d) ==
  IF LanguageId(u) # "yaml" THEN PassThrough(c, "textDocument/didChange", d)
  ELSE LET cache == getEmbeddedMQLCachedDocumentData(c, u, d)
           c2    == CacheAfterGet(c, u, d)
       IN  IF cache.region = Undefined /\ u \notin opened
             THEN Step(c2, "", <<>>, "")
           ELSE IF u \notin opened
             THEN IF cache.region # Undefined
                    THEN Step(c2, "textDocument/didOpen", cache.maskedText, "add")
                    ELSE Step(c2, "", <<>>, "")
           ELSE Step(c2, "textDocument/didChange", cache.maskedText, "")

\* didClose (lines 279-290): next(document) sends the host's didClose.
didClose(c, opened, u, d) ==
  IF LanguageId(u) = "yaml"
    THEN Step(c, "textDocument/didClose", <<>>, "drop")
    ELSE Step(c, "textDocument/didClose", <<>>, "")

\* The handler's synchronous part takes effect: the cache map is the one it
\* leaves; when it sends and the send succeeds (ok) the notification goes on
\* the wire and, if code follows the await, the handler is suspended; when
\* the send fails the await throws and nothing of the handler follows.
Handle(step, handler, u, d, ok, ev) ==
  /\ embeddedMQLDocumentCache' = step.cache
  /\ wire' = IF step.method # "" /\ ok
               THEN Append(wire, Emitted(step.method, u, d.version, step.text, ev))
               ELSE wire
  /\ pending' = IF step.method # "" /\ ok /\ step.after # ""
                  THEN Append(pending, [handler |-> handler, uri |-> u,
                                        after |-> step.after])
                  ELSE pending
  /\ UNCHANGED embeddedMQLOpenedYAMLDocuments

\* How a delivered event ended: no send, a send that succeeded, one that failed.
Sent(step, ok) == IF step.method = "" THEN "none" ELSE IF ok THEN "ok" ELSE "failed"

\* The document object a suspended formatting handler holds stays what it was
\* when the host closes the document and opens the uri again.
FreezeFormatting(u) ==
  IF formatting[u] # Undefined /\ formatting[u].document = Undefined
    THEN [formatting EXCEPT ![u].document = [version |-> doc[u].version,
                                             text |-> doc[u].text]]
    ELSE formatting

\* The host opens the document of u with text t; didOpen handles it.
HostOpen(u, t, ok) ==
  /\ CanDeliver
  /\ ~doc[u].open
  /\ LET d    == [open |-> TRUE, version |-> doc[u].version + 1, text |-> t]
         step == didOpen(embeddedMQLDocumentCache, embeddedMQLOpenedYAMLDocuments, u, d)
     IN  /\ doc' = [doc EXCEPT ![u] = d]
         /\ events' = Append(events, Event("open", u, d, Sent(step, ok)))
         /\ Handle(step, "didOpen", u, d, ok, Len(events) + 1)
  /\ formatting' = FreezeFormatting(u)
  /\ ret' = Undefined
  /\ UNCHANGED <<active, fn>>

\* The host changes the document of u to text t (a new version); didChange
\* handles it.
HostChange(u, t, ok) ==
  /\ CanDeliver
  /\ doc[u].open
  /\ LET d    == [open |-> TRUE, version |-> doc[u].version + 1, text |-> t]
         step == didChange(embeddedMQLDocumentCache, embeddedMQLOpenedYAMLDocuments, u, d)
     IN  /\ doc' = [doc EXCEPT ![u] = d]
         /\ events' = Append(events, Event("change", u, d, Sent(step, ok)))
         /\ Handle(step, "didChange", u, d, ok, Len(events) + 1)
  /\ ret' = Undefined
  /\ UNCHANGED <<formatting, active, fn>>

\* The host closes the document of u; didClose handles it.
HostClose(u, ok) ==
  /\ CanDeliver
  /\ doc[u].open
  /\ LET d    == [doc[u] EXCEPT !.open = FALSE]
         step == didClose(embeddedMQLDocumentCache, embeddedMQLOpenedYAMLDocuments, u, d)
     IN  /\ doc' = [doc EXCEPT ![u] = d]
         /\ events' = Append(events, Event("close", u, d, Sent(step, ok)))
         /\ Handle(step, "didClose", u, d, ok, Len(events) + 1)
  /\ ret' = Undefined
  /\ UNCHANGED <<formatting, active, fn>>

\* The opened-set after the code that follows a handler's await.
OpenedAfter(opened, task) ==
  IF task.after = "add" THEN opened \cup {task.uri}
  ELSE IF task.after = "drop" THEN opened \ {task.uri}
  ELSE opened

\* The cache map after the code that follows a handler's await.
CacheAfter(c, task) ==
  IF task.after = "drop" THEN [c EXCEPT ![task.uri] = Undefined] ELSE c

\* The oldest suspended handler resumes: its send has completed.
Resume(handler) ==
  /\ pending # <<>>
  /\ Head(pending).handler = handler
  /\ embeddedMQLOpenedYAMLDocuments' =
       OpenedAfter(embeddedMQLOpenedYAMLDocuments, Head(pending))
  /\ embeddedMQLDocumentCache' = CacheAfter(embeddedMQLDocumentCache, Head(pending))
  /\ pending' = Tail(pending)
  /\ ret' = Undefined
  /\ UNCHANGED <<doc, wire, formatting, events, active, fn>>

\* didOpen after its await (line 230).
ResumeDidOpen == Resume("didOpen")

\* didChange after the await of its didOpen (line 260).
ResumeDidChange == Resume("didChange")

\* didClose after await next (lines 283-286).
ResumeDidClose == Resume("didClose")

\* cleanupEmbeddedMQL (lines 357-360), called by deactivate; the host
\* delivers nothing afterwards.
CleanupEmbeddedMQL ==
  /\ active
  /\ active' = FALSE
  /\ embeddedMQLDocumentCache' = [u \in Uris |-> Undefined]
  /\ embeddedMQLOpenedYAMLDocuments' = {}
  /\ ret' = Undefined
  /\ UNCHANGED <<doc, wire, pending, formatting, events, fn>>

(* ---------------------------- Region Gatekeeper ----------------------- *)

\* isInsideValidMQLRegion that allows every request that carries no position.
isInsideValidMQLRegion_AllowsDocumentRequests(c, u, d, position) ==
  IF LanguageId(u) # "yaml" THEN TRUE
  ELSE IF position = Undefined THEN TRUE
  ELSE isInsideEmbeddedMQLRegion(position, getEmbeddedMQLCachedDocumentData(c, u, d).region)

\* isInsideValidMQLRegion(document, position) (lines 150-168): the value it
\* returns; position is Undefined for a document request.
isInsideValidMQLRegion(c, u, d, position) ==
  IF LanguageId(u) # "yaml" THEN TRUE
  ELSE LET cache == getEmbeddedMQLCachedDocumentData(c, u, d)
       IN  IF position = Undefined THEN cache.region # Undefined
           ELSE isInsideEmbeddedMQLRegion(position, cache.region)

\* CacheAfterGate that looks the document up before it looks at its language.
CacheAfterGate_EveryLanguage(c, u, d) == CacheAfterGet(c, u, d)

\* The cache map isInsideValidMQLRegion leaves (line 159 is not reached for
\* a non-YAML document).
CacheAfterGate(c, u, d) ==
  IF LanguageId(u) # "yaml" THEN c ELSE CacheAfterGet(c, u, d)

\* A returned value, with the handler, the document it read (d) and the
\* argument it was called or resumed with.
Returned(handler, u, d, arg, value) ==
  [handler |-> handler, uri |-> u, version |-> d.version, text |-> d.text,
   arg |-> arg, value |-> value]

\* The positions a request on document d may carry: none, or the start of
\* one of its lines or of the line after its last.
Positions(d) == {Undefined} \cup {Position(l, 0) : l \in 0..Len(Split(d.text))}

\* A feature provider asks the gate about the open document of u.
GateCheck(u, position) ==
  /\ active
  /\ doc[u].open
  /\ ret' = Returned("isInsideValidMQLRegion", u, doc[u], position,
                     isInsideValidMQLRegion(embeddedMQLDocumentCache, u, doc[u], position))
  /\ embeddedMQLDocumentCache' = CacheAfterGate(embeddedMQLDocumentCache, u, doc[u])
  /\ UNCHANGED <<doc, embeddedMQLOpenedYAMLDocuments, wire, pending, formatting,
                 events, active, fn>>

(* --------------------- Formatting Response Transformer ---------------- *)

\* JavaScript's null: next may answer a formatting request with null.
Null == [null |-> TRUE]

\* A thrown error (a rejected promise of the handler).
Thrown(what) == [thrown |-> what]

\* A list of edits as a returned value.
Edits(list) == [edits |-> list]

\* The gate refused the request; the request failed.
Refused == [refused |-> TRUE]

Failed == [failed |-> TRUE]

TextEdit(start, end, newText) ==
  [range |-> [start |-> start, end |-> end], newText |-> newText]

\* An edit of the service: it formats the masked document as a whole and
\* answers in its own coordinates, from (0, 0) on.
ServiceEdit(newText) == TextEdit(Position(0, 0), Position(Len(Split(newText)), 0), newText)

\* "a\nb"
NewTextAB == <<"a", NL, "b">>

\* "a\n \n  b": a white-space-only line and an indented line.
NewTextBlank == <<"a", NL, " ", NL, " ", " ", "b">>

\* What next(document, options, token) may resolve to.
Responses ==
  {Null, Edits(<<>>), Edits(<<ServiceEdit(NewTextAB)>>),
   Edits(<<ServiceEdit(NewTextBlank)>>),
   Edits(<<ServiceEdit(NewTextAB), ServiceEdit(NewTextBlank)>>)}

\* formattedLines.map(line => line.trim() === "" ? "" : blockIndent + line)
Reindent(formattedLines, blockIndent) ==
  [n \in 1..Len(formattedLines) |->
     IF IsBlank(formattedLines[n]) THEN <<>> ELSE blockIndent \o formattedLines[n]]

\* sourceLine.text.match(/^(\s*)/)?.[0] || ""
LeadingWhitespace(l) == SubSeq(l, 1, LeadingSpaces(l))

\* document.lineAt(n).text for a document whose lines end in "\n".
LineAt(d, n) == At(Split(d.text), n)

\* TransformEdit that indents to the introducer's column, without the two
\* spaces of the block.
TransformEdit_KeyIndent(d, region, edit) ==
  LET sourceLine     == LineAt(d, region.startLine - 1)
      blockIndent    == LeadingWhitespace(sourceLine)
      formattedLines == Split(edit.newText)
      reindentedText == Join(Reindent(formattedLines, blockIndent))
      startPos       == Position(region.startLine, 0)
      endPos         == Position(region.endLine, Len(LineAt(d, region.endLine)))
  IN  Edits(<<TextEdit(startPos, endPos, reindentedText)>>)

\* TransformEdit whose range starts at the introducer line instead of the
\* line after it.
TransformEdit_ReplacesIntroducer(d, region, edit) ==
  LET sourceLine     == LineAt(d, region.startLine - 1)
      blockIndent    == LeadingWhitespace(sourceLine) \o <<" ", " ">>
      reindentedText == Join(Reindent(Split(edit.newText), blockIndent))
      startPos       == Position(region.startLine - 1, 0)
      endPos         == Position(region.endLine, Len(LineAt(d, region.endLine)))
  IN  Edits(<<TextEdit(startPos, endPos, reindentedText)>>)

\* Lines 315-334: the edit built from the service's only edit and the region.
TransformEdit(d, region, edit) ==
  LET sourceLine     == LineAt(d, region.startLine - 1)
      sourceIndent   == LeadingWhitespace(sourceLine)
      blockIndent    == sourceIndent \o <<" ", " ">>
      formattedLines == Split(edit.newText)
      reindentedText == Join(Reindent(formattedLines, blockIndent))
      startPos       == Position(region.startLine, 0)
      endPos         == Position(region.endLine, Len(LineAt(d, region.endLine)))
  IN  Edits(<<TextEdit(startPos, endPos, reindentedText)>>)

\* FormattingResult without the check that the response holds one edit: the
\* first edit is transformed whatever follows it.
FormattingResult_FirstEditOnly(c, u, d, edits) ==
  IF edits = Null \/ Len(edits.edits) = 0 THEN edits
  ELSE IF LanguageId(u) = "yaml"
    THEN LET region == getEmbeddedMQLCachedDocumentData(c, u, d).region
         IN  IF region = Undefined THEN Thrown("TypeError")
             ELSE TransformEdit(d, region, edits.edits[1])
  ELSE edits

\* provideDocumentFormattingEdits after await next (lines 300-337): the value
\* returned for the response edits; region! of an absent region is undefined
\* and reading its startLine throws a TypeError.
FormattingResult(c, u, d, edits) ==
  IF edits = Null \/ Len(edits.edits) = 0 THEN edits
  ELSE IF LanguageId(u) = "yaml"
    THEN LET region == getEmbeddedMQLCachedDocumentData(c, u, d).region
         IN  IF Len(edits.edits) # 1 THEN Undefined
             ELSE IF region = Undefined THEN Thrown("TypeError")
             ELSE TransformEdit(d, region, edits.edits[1])
  ELSE edits

\* The cache map provideDocumentFormattingEdits leaves after await next
\* (line 307 is reached for a YAML document and a non-empty response).
CacheAfterFormatting(c, u, d, edits) ==
  IF edits # Null /\ Len(edits.edits) # 0 /\ LanguageId(u) = "yaml"
    THEN CacheAfterGet(c, u, d)
    ELSE c

\* The host asks for the formatting of the open document of u
\* (lines 292-299): the gate refuses, or next is called and awaited.
FormatRequest(u) ==
  /\ CanDeliver
  /\ doc[u].open
  /\ formatting[u] = Undefined
  /\ LET allowed == isInsideValidMQLRegion(embeddedMQLDocumentCache, u, doc[u], Undefined)
     IN  /\ embeddedMQLDocumentCache' = CacheAfterGate(embeddedMQLDocumentCache, u, doc[u])
         /\ formatting' = IF allowed
                            THEN [formatting EXCEPT ![u] =
                                    [document |-> Undefined, version |-> doc[u].version]]
                            ELSE formatting
         /\ ret' = IF allowed THEN Undefined
                   ELSE Returned("provideDocumentFormattingEdits", u, doc[u],
                                 Refused, Undefined)
         /\ events' = Append(events, Event("format", u, doc[u],
                                           IF allowed THEN "ok" ELSE "none"))
  /\ UNCHANGED <<doc, embeddedMQLOpenedYAMLDocuments, wire, pending, active, fn>>

\* The document object the suspended formatting handler of u reads: the
\* host's document, or what it was when the host closed it and opened the
\* uri again.
FormattingDocument(u) ==
  IF formatting[u].document # Undefined THEN formatting[u].document
  ELSE [version |-> doc[u].version, text |-> doc[u].text]

\* The service answers the formatting request of u with edits; the handler
\* resumes after await next.
FormatResponse(u, edits) ==
  /\ formatting[u] # Undefined
  /\ LET d == FormattingDocument(u)
     IN  /\ ret' = Returned("provideDocumentFormattingEdits", u, d, edits,
                            FormattingResult(embeddedMQLDocumentCache, u, d, edits))
         /\ embeddedMQLDocumentCache' =
              CacheAfterFormatting(embeddedMQLDocumentCache, u, d, edits)
  /\ formatting' = [formatting EXCEPT ![u] = Undefined]
  /\ UNCHANGED <<doc, embeddedMQLOpenedYAMLDocuments, wire, pending, events, active, fn>>

\* The formatting request of u fails: await next throws and the handler
\* rejects with the same error.
FormatFailure(u) ==
  /\ formatting[u] # Undefined
  /\ ret' = Returned("provideDocumentFormattingEdits", u, FormattingDocument(u),
                     Failed, Thrown("next"))
  /\ formatting' = [formatting EXCEPT ![u] = Undefined]
  /\ UNCHANGED <<doc, embeddedMQLDocumentCache, embeddedMQLOpenedYAMLDocuments, wire,
                 pending, events, active, fn>>

Open == \E u \in Uris : \E t \in TextsOf(u), ok \in Outcomes(u) : HostOpen(u, t, ok)

Change == \E u \in Uris : \E t \in TextsOf(u), ok \in Outcomes(u) : HostChange(u, t, ok)

Close == \E u \in Uris : \E ok \in Outcomes(u) : HostClose(u, ok)

Gate == \E u \in Uris : \E position \in Positions(doc[u]) : GateCheck(u, position)

Format == \E u \in Uris : FormatRequest(u)

Response == \E u \in Uris, edits \in Responses : FormatResponse(u, edits)

Failure == \E u \in Uris : FormatFailure(u)

Next ==
  \/ Open
  \/ Change
  \/ Close
  \/ ResumeDidOpen
  \/ ResumeDidChange
  \/ ResumeDidClose
  \/ CleanupEmbeddedMQL
  \/ Format
  \/ Response
  \/ Failure

\* The middleware: events are delivered while earlier handlers are still
\* suspended at their await.
Spec == Init /\ [][Next]_vars

\* No handler is suspended.
Idle == pending = <<>> /\ \A u \in Uris : formatting[u] = Undefined

NextSeq ==
  \/ Idle /\ Open
  \/ Idle /\ Change
  \/ Idle /\ Close
  \/ ResumeDidOpen
  \/ ResumeDidChange
  \/ ResumeDidClose

\* The middleware when every handler finishes before the next event.
SpecSeq == Init /\ [][NextSeq]_vars

NextGate ==
  \/ Open
  \/ Change
  \/ Close
  \/ ResumeDidOpen
  \/ ResumeDidChange
  \/ ResumeDidClose
  \/ Gate

\* The document synchronisation with requests that ask the gate, with and
\* without a position, about the open documents.
SpecGate == Init /\ [][NextGate]_vars

(* ----------------------- function specification ----------------------- *)

\* "name: x\nsource: |\n  a\n  b\nother: y\n"
TextScenario ==
  Join(<< <<"n", "a", "m", "e", ":", " ", "x">>, LineSource0, LineA2,
          <<" ", " ", "b">>, <<"o", "t", "h", "e", "r", ":", " ", "y">>, <<>> >>)

\* The lines the enumerated texts are made of: a key at indent 0, introducers
\* at indent 0 and 2, content at indent 2 and 4, an empty line and a
\* white-space-only line.
FnLines == {LineX, LineSource0, LineSource2, LineA2, LineB4, <<>>, <<" ">>}

FnTexts ==
  {Join(ls) : ls \in UNION {[1..n -> FnLines] : n \in 1..MaxLines}} \cup {TextScenario}

\* The regions maskDocument is applied to: any span of line numbers, also
\* one that ends past the text.
FnRegions == {Region(s, e) : s \in 0..MaxLines, e \in 0..MaxLines} \cap
             {r \in [startLine : 0..MaxLines, endLine : 0..MaxLines] :
                r.endLine >= r.startLine}

InitFn ==
  /\ doc = [u \in Uris |-> NoDoc]
  /\ embeddedMQLDocumentCache = [u \in Uris |-> Undefined]
  /\ embeddedMQLOpenedYAMLDocuments = {}
  /\ wire = <<>>
  /\ pending = <<>>
  /\ formatting = [u \in Uris |-> Undefined]
  /\ ret = Undefined
  /\ events = <<>>
  /\ active = TRUE
  /\ fn \in {[op |-> "text", text |-> t] : t \in FnTexts}

\* detectMQLRegion(text)
Detect ==
  /\ fn.op = "text"
  /\ fn' = [op |-> "detectMQLRegion", text |-> fn.text,
            region |-> detectMQLRegion(fn.text)]
  /\ UNCHANGED mwVars

\* maskDocument(text, detectMQLRegion(text)), as lines 185-186 compose them.
MaskDetected ==
  /\ fn.op = "detectMQLRegion"
  /\ fn' = [op |-> "maskDocument", text |-> fn.text, region |-> fn.region,
            detected |-> TRUE, maskedText |-> maskDocument(fn.text, fn.region)]
  /\ UNCHANGED mwVars

\* maskDocument(text, region) for any region, present or not.
MaskAny ==
  /\ fn.op = "text"
  /\ \E region \in FnRegions \cup {Undefined} :
       fn' = [op |-> "maskDocument", text |-> fn.text, region |-> region,
              detected |-> FALSE, maskedText |-> maskDocument(fn.text, region)]
  /\ UNCHANGED mwVars

\* maskDocument(maskedText, region): the masked text masked once more with
\* the same region.
MaskAgain ==
  /\ fn.op = "maskDocument"
  /\ fn' = [op |-> "maskDocumentAgain", text |-> fn.text, region |-> fn.region,
            maskedText |-> fn.maskedText,
            maskedAgain |-> maskDocument(fn.maskedText, fn.region)]
  /\ UNCHANGED mwVars

\* The texts the service may answer a formatting request with: "a\nb",
\* "a\n \n  b", the empty text, and "source: |\nx".
FnNewTexts == {NewTextAB, NewTextBlank, <<>>, Join(<<LineSource0, LineX>>)}

\* Lines 315-334 applied to a text with a detected region and a one-edit
\* response of the service.
Transform ==
  /\ fn.op = "detectMQLRegion"
  /\ fn.region # Undefined
  /\ \E newText \in FnNewTexts :
       fn' = [op |-> "transform", text |-> fn.text, region |-> fn.region,
              newText |-> newText,
              edit |-> TransformEdit([version |-> 1, text |-> fn.text], fn.region,
                                     ServiceEdit(newText)).edits[1]]
  /\ UNCHANGED mwVars

NextFn ==
  \/ Detect
  \/ MaskDetected
  \/ MaskAny
  \/ MaskAgain
  \/ Transform

\* The pure functions applied to enumerated texts and regions.
SpecFn == InitFn /\ [][NextFn]_vars

(* ------------------------------- claims ------------------------------- *)

IsMethod(m, method, u) == m.method = method /\ m.uri = u

\* C1: every textDocument/didChange emitted for a YAML uri is preceded by a
\* textDocument/didOpen for the same uri with no didClose for it in between.
C1_ChangeOnlyWhileOpenOnService ==
  \A i \in 1..Len(wire) :
    (wire[i].method = "textDocument/didChange" /\ LanguageId(wire[i].uri) = "yaml") =>
      \E j \in 1..(i - 1) :
        /\ IsMethod(wire[j], "textDocument/didOpen", wire[i].uri)
        /\ \A k \in (j + 1)..(i - 1) :
             ~IsMethod(wire[k], "textDocument/didClose", wire[i].uri)

\* The host events of the YAML document, and the notifications sent for it.
YamlEvents == SelectSeq(events, LAMBDA e : e.uri = YamlUri)

YamlWire == SelectSeq(wire, LAMBDA m : m.uri = YamlUri)

\* Which of the YAML document's events the host event number ev is.
OrdinalOf(ev) == Cardinality({i \in 1..ev : events[i].uri = YamlUri})

\* The k-th event of open(no region), change(region appears),
\* change(region persists), close, every send succeeding.
LifecycleEvent(e, k) ==
  IF k = 1 THEN e.kind = "open" /\ ~e.region
  ELSE IF k = 4 THEN e.kind = "close" /\ e.sent = "ok"
  ELSE e.kind = "change" /\ e.region /\ e.sent = "ok"

LifecyclePrefix(n) ==
  /\ Len(YamlEvents) = n
  /\ n \in 1..4
  /\ \A k \in 1..n : LifecycleEvent(YamlEvents[k], k)

LifecycleWire ==
  << <<"textDocument/didOpen", 2>>, <<"textDocument/didChange", 3>>,
     <<"textDocument/didClose", 4>> >>

\* C2: handled one after the other, open(no region), change(region),
\* change(region), close emit one didOpen during the second event and one
\* didChange during the third, no close before the close event, and once the
\* close handler has finished neither collection holds the uri.
C2_LazyOpenLifecycle ==
  \A n \in 1..4 :
    LifecyclePrefix(n) =>
      /\ [i \in 1..Len(YamlWire) |-> <<YamlWire[i].method, OrdinalOf(YamlWire[i].ev)>>]
           = SubSeq(LifecycleWire, 1, n - 1)
      /\ (n = 4 /\ pending = <<>>) =>
           /\ embeddedMQLDocumentCache[YamlUri] = Undefined
           /\ YamlUri \notin embeddedMQLOpenedYAMLDocuments

C2_Witness == LifecyclePrefix(4) /\ pending = <<>>

\* C3: for a present region the masked text has as many lines as the text,
\* the lines inside [startLine, endLine] unchanged and all others empty.
C3_MaskKeepsGeometry ==
  (fn.op = "maskDocument" /\ fn.region # Undefined) =>
    LET before == Split(fn.text)
        after  == Split(fn.maskedText)
    IN  /\ Len(after) = Len(before)
        /\ \A n \in 1..Len(before) :
             after[n] = IF fn.region.startLine <= n - 1 /\ n - 1 <= fn.region.endLine
                          THEN before[n]
                          ELSE <<>>

C3_Witness ==
  /\ fn.op = "maskDocument"
  /\ fn.region # Undefined
  /\ ~fn.detected
  /\ LET before == Split(fn.text)
     IN  /\ fn.region.endLine < Len(before)
         /\ before[fn.region.endLine + 1] # <<>>
         /\ \E n \in 1..Len(before) :
              n - 1 > fn.region.endLine /\ before[n] # <<>>

\* Line i is the first introducer line of lines.
FirstIntroducer(lines, i) ==
  /\ i \in 0..(Len(lines) - 1)
  /\ IntroducerMatch(At(lines, i))
  /\ \A h \in 0..(i - 1) : ~IntroducerMatch(At(lines, h))

\* After the introducer at line i come n >= 1 non-blank lines indented at
\* least two more than the key, then a non-blank line indented less.
BlockOf(lines, i, n) ==
  LET k == LeadingSpaces(At(lines, i))
  IN  /\ n >= 1
      /\ i + n + 1 <= Len(lines) - 1
      /\ \A j \in (i + 1)..(i + n) :
           ~IsBlank(At(lines, j)) /\ LeadingSpaces(At(lines, j)) >= k + 2
      /\ ~IsBlank(At(lines, i + n + 1))
      /\ LeadingSpaces(At(lines, i + n + 1)) < k + 2

\* "\n\n  a\n  b\n\n"
MaskedScenario == <<NL, NL, " ", " ", "a", NL, " ", " ", "b", NL, NL>>

Detected ==
  fn.op = "detectMQLRegion" \/ (fn.op = "maskDocument" /\ fn.detected)

\* C4: a block of n content lines under the first introducer at line i,
\* ended by a less indented line, is the region {i+1, i+n}; the scenario text
\* gives {2, 3} and the masked text "\n\n  a\n  b\n\n".
C4_BlockRegion ==
  Detected =>
    LET lines == Split(fn.text)
    IN  /\ \A i \in 0..(Len(lines) - 1), n \in 1..Len(lines) :
             (FirstIntroducer(lines, i) /\ BlockOf(lines, i, n)) =>
               fn.region = Region(i + 1, i + n)
        /\ fn.text = TextScenario =>
             /\ fn.region = Region(2, 3)
             /\ fn.op = "maskDocument" => fn.maskedText = MaskedScenario

C4_Witness ==
  /\ fn.op = "maskDocument"
  /\ fn.detected
  /\ fn.text = TextScenario
  /\ BlockOf(Split(fn.text), 1, 2)

\* No content line follows the introducer at line i: the first non-blank
\* line after it is indented less than two more than the key, or every line
\* after it is blank.
NoContent(lines, i) ==
  LET k == LeadingSpaces(At(lines, i))
  IN  \A j \in (i + 1)..(Len(lines) - 1) :
        (\A h \in (i + 1)..(j - 1) : IsBlank(At(lines, h))) =>
          (IsBlank(At(lines, j)) \/ LeadingSpaces(At(lines, j)) < k + 2)

\* C5: detectMQLRegion returns no region when the line after the introducer
\* is past the end of the document, and when no content line is included.
C5_NoContentNoRegion ==
  fn.op = "detectMQLRegion" =>
    LET lines == Split(fn.text)
    IN  \A i \in 0..(Len(lines) - 1) :
          (FirstIntroducer(lines, i) /\ (i + 1 >= Len(lines) \/ NoContent(lines, i))) =>
            fn.region = Undefined

IsReturn(handler) == ret # Undefined /\ ret.handler = handler

\* C6: the gate allows every non-YAML request; a YAML document request
\* exactly when the current text has a region; a YAML position request
\* exactly when it has one and the position's line is inside it.
C6_Gate ==
  IsReturn("isInsideValidMQLRegion") =>
    LET region == detectMQLRegion(ret.text)
    IN  ret.value =
          IF LanguageId(ret.uri) # "yaml" THEN TRUE
          ELSE IF ret.arg = Undefined THEN region # Undefined
          ELSE /\ region # Undefined
               /\ region.startLine <= ret.arg.line
               /\ ret.arg.line <= region.endLine

C6_Witness ==
  /\ IsReturn("isInsideValidMQLRegion")
  /\ LanguageId(ret.uri) = "yaml"
  /\ ret.arg # Undefined
  /\ ret.value = TRUE
  /\ ret.version >= 2
  /\ ret.text = TextBlock2

IsEdits(v) == "edits" \in DOMAIN v

FormattingReturn == IsReturn("provideDocumentFormattingEdits")

\* "    a\n    b"
ReindentedAB == <<" ", " ", " ", " ", "a", NL, " ", " ", " ", " ", "b">>

\* C7: for a YAML document with a region and a response of one edit the
\* handler returns one edit: the response's lines, each non-blank one behind
\* the introducer's indentation plus two spaces and each blank one empty,
\* over the range from (startLine, 0) to the end of line endLine.
C7_FormattingEdit ==
  (/\ FormattingReturn
   /\ LanguageId(ret.uri) = "yaml"
   /\ IsEdits(ret.arg)
   /\ Len(ret.arg.edits) = 1
   /\ detectMQLRegion(ret.text) # Undefined) =>
    LET region      == detectMQLRegion(ret.text)
        host        == Split(ret.text)
        introducer  == At(host, region.startLine - 1)
        blockIndent == SubSeq(introducer, 1, LeadingSpaces(introducer)) \o <<" ", " ">>
        formatted   == Split(ret.arg.edits[1].newText)
    IN  /\ IsEdits(ret.value)
        /\ Len(ret.value.edits) = 1
        /\ LET edit == ret.value.edits[1]
               out  == Split(edit.newText)
           IN  /\ Len(out) = Len(formatted)
               /\ \A n \in 1..Len(formatted) :
                    out[n] = IF IsBlank(formatted[n]) THEN <<>>
                             ELSE blockIndent \o formatted[n]
               /\ edit.range.start = Position(region.startLine, 0)
               /\ edit.range.end =
                    Position(region.endLine, Len(At(host, region.endLine)))
               /\ (ret.text = TextBlock2 /\ ret.arg.edits[1].newText = NewTextAB) =>
                    edit.newText = ReindentedAB

C7_Witness ==
  /\ FormattingReturn
  /\ ret.uri = YamlUri
  /\ ret.text = TextBlock2
  /\ ret.arg = Edits(<<ServiceEdit(NewTextAB)>>)
  /\ ret.value = Edits(<<TextEdit(Position(2, 0), Position(3, 5), ReindentedAB)>>)

\* C8: for a YAML document a response of no edit, or of two or more, gives
\* no edit: the result is absent or empty.
C8_MalformedResponse ==
  (/\ FormattingReturn
   /\ LanguageId(ret.uri) = "yaml"
   /\ IsEdits(ret.arg)
   /\ Len(ret.arg.edits) # 1) =>
    ret.value \in {Undefined, Edits(<<>>)}

C8_Witness ==
  /\ FormattingReturn
  /\ ret.uri = YamlUri
  /\ IsEdits(ret.arg)
  /\ Len(ret.arg.edits) = 2
  /\ ret.value = Undefined

\* The last formatting request of u, as a host event number (0 for none).
LastFormat(u) ==
  LET fs == {i \in 1..Len(events) : events[i].kind = "format" /\ events[i].uri = u}
  IN  IF fs = {} THEN 0 ELSE CHOOSE i \in fs : \A h \in fs : h <= i

\* A didClose of u was delivered after the last formatting request of u and
\* its handler has finished.
ClosedSinceFormat(u) ==
  LET closes  == {i \in (LastFormat(u) + 1)..Len(events) :
                    events[i].kind = "close" /\ events[i].uri = u /\ events[i].sent = "ok"}
      waiting == {i \in 1..Len(pending) :
                    pending[i].handler = "didClose" /\ pending[i].uri = u}
  IN  LastFormat(u) > 0 /\ Cardinality(closes) > Cardinality(waiting)

\* C9: a formatting response that arrives after the document's didClose was
\* handled gives no edit and no error.
C9_ResponseAfterCloseIgnored ==
  (/\ FormattingReturn
   /\ LanguageId(ret.uri) = "yaml"
   /\ ret.arg \notin {Refused, Failed}
   /\ ClosedSinceFormat(ret.uri)) =>
    ret.value \in {Undefined, Null, Edits(<<>>)}

\* C10: a uri is in the opened-set only if the host document is open and a
\* region was detected when its synthetic didOpen was sent.
C10_OpenedOnlyWhileHostOpen ==
  \A u \in embeddedMQLOpenedYAMLDocuments :
    /\ doc[u].open
    /\ \E i \in 1..Len(wire) :
         IsMethod(wire[i], "textDocument/didOpen", u) /\ events[wire[i].ev].region

\* The open/close period of u that host event number ev belongs to: the
\* number of host opens of u delivered up to it.
PeriodOf(u, ev) ==
  Cardinality({i \in 1..ev : events[i].kind = "open" /\ events[i].uri = u})

\* open before change before close
Rank(method) ==
  IF method = "textDocument/didOpen" THEN 1
  ELSE IF method = "textDocument/didChange" THEN 2
  ELSE 3

SamePeriod(m, n) == PeriodOf(m.uri, m.ev) = PeriodOf(n.uri, n.ev)

\* C11: the notifications of one YAML uri are emitted in the order of the
\* host events that triggered them, and those of one open/close period read
\* open, then changes, then close.
C11_EmissionOrder ==
  \A i, j \in 1..Len(wire) :
    (i < j /\ wire[i].uri = wire[j].uri /\ LanguageId(wire[i].uri) = "yaml") =>
      /\ wire[i].ev <= wire[j].ev
      /\ SamePeriod(wire[i], wire[j]) =>
           /\ Rank(wire[i].method) <= Rank(wire[j].method)
           /\ wire[j].method # "textDocument/didOpen"

\* C12: no textDocument/didClose reaches the service for a YAML uri for
\* which no textDocument/didOpen was sent before.
C12_NoCloseWhileUnopened ==
  \A i \in 1..Len(wire) :
    (wire[i].method = "textDocument/didClose" /\ LanguageId(wire[i].uri) = "yaml") =>
      \E j \in 1..(i - 1) : IsMethod(wire[j], "textDocument/didOpen", wire[i].uri)

\* The last host event of u is a didClose and no handler is suspended.
CloseHandled(u) ==
  LET es == SelectSeq(events, LAMBDA e : e.uri = u)
  IN  /\ es # <<>>
      /\ es[Len(es)].kind = "close"
      /\ pending = <<>>

\* C13: once a didClose of a YAML document has been handled, neither the
\* cache nor the opened-set holds its uri, also when forwarding the close
\* failed.
C13_CloseDropsEntries ==
  \A u \in Uris :
    (LanguageId(u) = "yaml" /\ CloseHandled(u)) =>
      /\ embeddedMQLDocumentCache[u] = Undefined
      /\ u \notin embeddedMQLOpenedYAMLDocuments

\* The text the document of u had at version v: every text change is a host
\* event that bumps the version.
TextAt(u, v) ==
  LET i == CHOOSE i \in 1..Len(events) : events[i].uri = u /\ events[i].version = v
  IN  events[i].text

\* Every stored entry is what detection and masking give for the text of
\* its version, line for line.
CacheEntriesDerived ==
  \A u \in Uris :
    embeddedMQLDocumentCache[u] # Undefined =>
      LET entry == embeddedMQLDocumentCache[u]
          text  == TextAt(u, entry.version)
      IN  /\ \E i \in 1..Len(events) :
               events[i].uri = u /\ events[i].version = entry.version
          /\ entry.region = detectMQLRegion(text)
          /\ entry.maskedText = maskDocument(text, entry.region)
          /\ Len(Split(entry.maskedText)) = Len(Split(text))

\* A stored entry of the version that is asked for stays as it is, and a
\* lookup for another version (every didChange of a YAML document makes one)
\* leaves an entry of that version.
CacheLookupStep ==
  \A u \in Uris :
    /\ (/\ embeddedMQLDocumentCache[u] # Undefined
        /\ embeddedMQLDocumentCache'[u] # Undefined
        /\ embeddedMQLDocumentCache'[u].version = embeddedMQLDocumentCache[u].version) =>
         embeddedMQLDocumentCache'[u] = embeddedMQLDocumentCache[u]
    /\ (/\ LanguageId(u) = "yaml"
        /\ Len(events') > Len(events)
        /\ events'[Len(events')].uri = u
        /\ events'[Len(events')].kind = "change") =>
         /\ embeddedMQLDocumentCache'[u] # Undefined
         /\ embeddedMQLDocumentCache'[u].version = doc'[u].version

\* C14: an entry of the document's version is returned as stored, otherwise
\* a fresh one is stored; every entry of the cache holds the region and the
\* masked text of the text of its version, with that text's line count.
C14_CacheEntries == []CacheEntriesDerived /\ [][CacheLookupStep]_vars

\* A formatting request read the entry a change stored for the version, and
\* the entry holds a region.
C14_Witness ==
  /\ embeddedMQLDocumentCache[YamlUri] # Undefined
  /\ embeddedMQLDocumentCache[YamlUri].region # Undefined
  /\ embeddedMQLDocumentCache[YamlUri].version >= 2
  /\ \E i \in 2..Len(events) :
       /\ events[i].kind = "format"
       /\ events[i].uri = YamlUri
       /\ events[i - 1].kind = "change"
       /\ events[i - 1].uri = YamlUri
       /\ events[i].version = embeddedMQLDocumentCache[YamlUri].version

NoIntroducer(text) ==
  \A i \in 0..(Len(Split(text)) - 1) : ~IntroducerMatch(At(Split(text), i))

\* C15: a text without an introducer line has no region, and masked without
\* a region it is as many lines as before, all of them empty.
C15_NoIntroducer ==
  (fn.op \in {"detectMQLRegion", "maskDocument"} /\ NoIntroducer(fn.text)) =>
    /\ Detected => fn.region = Undefined
    /\ (fn.op = "maskDocument" /\ fn.region = Undefined) =>
         LET after == Split(fn.maskedText)
         IN  /\ Len(after) = Len(Split(fn.text))
             /\ \A n \in 1..Len(after) : after[n] = <<>>

C15_Witness ==
  /\ fn.op = "maskDocument"
  /\ fn.detected
  /\ NoIntroducer(fn.text)
  /\ Len(Split(fn.text)) = 3
  /\ Split(fn.text)[2] = LineA2
  /\ fn.maskedText = <<NL, NL>>

\* C16: masking a masked text once more with the same region, present or
\* absent, gives the masked text again.
C16_MaskIdempotent ==
  fn.op = "maskDocumentAgain" => fn.maskedAgain = fn.maskedText

C16_Witness ==
  /\ fn.op = "maskDocumentAgain"
  /\ fn.region # Undefined
  /\ fn.maskedText # fn.text
  /\ \E n \in 1..Len(Split(fn.maskedText)) : ~IsBlank(Split(fn.maskedText)[n])
  /\ fn.maskedAgain = fn.maskedText

\* The step delivers a host event of this kind for u.
Delivers(kind, u) ==
  /\ Len(events') = Len(events) + 1
  /\ events'[Len(events')].kind = kind
  /\ events'[Len(events')].uri = u

\* The step emits one notification: method for the last delivered event,
\* with the event's version and the masked text of the event's text.
EmitsMasked(method) ==
  LET e == events'[Len(events')]
  IN  wire' = Append(wire, Notification(method, e.uri, e.version,
                                        maskDocument(e.text, detectMQLRegion(e.text)),
                                        Len(events')))

\* The handler of the step waits for its send, to add its uri afterwards.
SuspendsToAdd(handler) ==
  pending' = Append(pending, [handler |-> handler,
                              uri |-> events'[Len(events')].uri, after |-> "add"])

\* A suspended handler that is to add its uri adds it when it resumes.
AddsOnResume ==
  (pending # <<>> /\ pending' = Tail(pending) /\ Head(pending).after = "add") =>
    embeddedMQLOpenedYAMLDocuments' =
      embeddedMQLOpenedYAMLDocuments \cup {Head(pending).uri}

\* A host didOpen of a YAML document that is not in the opened-set.
OpenWhileUnopened ==
  \A u \in Uris :
    (/\ LanguageId(u) = "yaml"
     /\ Delivers("open", u)
     /\ u \notin embeddedMQLOpenedYAMLDocuments) =>
      LET e == events'[Len(events')]
      IN  /\ embeddedMQLOpenedYAMLDocuments' = embeddedMQLOpenedYAMLDocuments
          /\ e.version = doc'[u].version
          /\ IF e.region
               THEN IF e.sent = "ok"
                      THEN EmitsMasked("textDocument/didOpen") /\ SuspendsToAdd("didOpen")
                      ELSE e.sent = "failed" /\ wire' = wire /\ pending' = pending
               ELSE e.sent = "none" /\ wire' = wire /\ pending' = pending

\* C17: a host didOpen of a YAML document outside the opened-set sends one
\* textDocument/didOpen with the document's version and the masked text and
\* adds the uri once the send has completed, when the text has a region;
\* without a region it sends nothing and leaves the opened-set as it is.
C17_OpenWhileUnopened == [][OpenWhileUnopened /\ AddsOnResume]_vars

C17_Witness ==
  /\ Len(events) = 1
  /\ events[1].kind = "open"
  /\ events[1].text = TextBlock2
  /\ wire = <<Notification("textDocument/didOpen", YamlUri, 1,
                           <<NL, NL>> \o LineB4 \o <<NL>> \o LineB4, 1)>>
  /\ embeddedMQLOpenedYAMLDocuments = {YamlUri}

\* A host didChange of a YAML document that is not in the opened-set.
ChangeWhileUnopened ==
  \A u \in Uris :
    (/\ LanguageId(u) = "yaml"
     /\ Delivers("change", u)
     /\ u \notin embeddedMQLOpenedYAMLDocuments) =>
      LET e == events'[Len(events')]
      IN  /\ embeddedMQLOpenedYAMLDocuments' = embeddedMQLOpenedYAMLDocuments
          /\ e.version = doc'[u].version
          /\ IF e.region
               THEN IF e.sent = "ok"
                      THEN EmitsMasked("textDocument/didOpen") /\ SuspendsToAdd("didChange")
                      ELSE e.sent = "failed" /\ wire' = wire /\ pending' = pending
               ELSE e.sent = "none" /\ wire' = wire /\ pending' = pending

\* C18: a host didChange of a YAML document outside the opened-set sends a
\* textDocument/didOpen, and no didChange, with the new masked text and adds
\* the uri once the send has completed, when the new text has a region;
\* without a region it sends nothing and the uri stays out.
C18_ChangeWhileUnopened == [][ChangeWhileUnopened /\ AddsOnResume]_vars

C18_Witness ==
  /\ Len(events) = 2
  /\ events[1].kind = "open"
  /\ events[1].text = TextPlain
  /\ events[2].kind = "change"
  /\ events[2].text = TextBlock0
  /\ wire = <<Notification("textDocument/didOpen", YamlUri, 2,
                           <<NL>> \o LineA2 \o <<NL>>, 2)>>
  /\ embeddedMQLOpenedYAMLDocuments = {YamlUri}

\* A host didChange of a YAML document that is in the opened-set.
ChangeWhileOpened ==
  \A u \in Uris :
    (/\ LanguageId(u) = "yaml"
     /\ Delivers("change", u)
     /\ u \in embeddedMQLOpenedYAMLDocuments) =>
      LET e      == events'[Len(events')]
          masked == maskDocument(e.text, detectMQLRegion(e.text))
      IN  /\ embeddedMQLOpenedYAMLDocuments' = embeddedMQLOpenedYAMLDocuments
          /\ pending' = pending
          /\ e.version = doc'[u].version
          /\ ~e.region => \A n \in 1..Len(Split(masked)) : Split(masked)[n] = <<>>
          /\ IF e.sent = "ok"
               THEN wire' = Append(wire, ChangeNotification(u, e.version,
                                           <<[text |-> masked]>>, Len(events')))
               ELSE e.sent = "failed" /\ wire' = wire

\* C19: a host didChange of a YAML document in the opened-set sends one
\* textDocument/didChange whose contentChanges is one entry without a range
\* holding the whole masked text of the new version, also when the new text
\* has no region; the uri stays in the opened-set.
C19_ChangeWhileOpened == [][ChangeWhileOpened]_vars

C19_Witness ==
  /\ Len(events) = 2
  /\ events[2].kind = "change"
  /\ events[2].text = TextPlain
  /\ Len(wire) = 2
  /\ wire[2] = ChangeNotification(YamlUri, 2, <<[text |-> <<>>]>>, 2)
  /\ embeddedMQLOpenedYAMLDocuments = {YamlUri}

\* Under the introducer at line i the block's last content line is line c,
\* and the lines after it up to line b are blank.
TrailingBlanks(lines, i, c, b) ==
  LET k == LeadingSpaces(At(lines, i))
  IN  /\ i < c /\ c < b /\ b <= Len(lines) - 1
      /\ \A j \in (i + 1)..c :
           IsBlank(At(lines, j)) \/ LeadingSpaces(At(lines, j)) >= k + 2
      /\ ~IsBlank(At(lines, c))
      /\ \A j \in (c + 1)..b : IsBlank(At(lines, j))

\* C20: blank lines after the block's last content line belong to the region
\* when the document ends after them, and do not (endLine is the last content
\* line) when a non-blank line indented less than contentIndent follows them.
C20_TrailingBlankLines ==
  fn.op = "detectMQLRegion" =>
    LET lines == Split(fn.text)
        last  == Len(lines) - 1
    IN  \A i, c, b \in 0..last :
          (FirstIntroducer(lines, i) /\ TrailingBlanks(lines, i, c, b)) =>
            /\ b = last => fn.region = Region(i + 1, b)
            /\ (/\ b < last
                /\ ~IsBlank(At(lines, b + 1))
                /\ LeadingSpaces(At(lines, b + 1)) < LeadingSpaces(At(lines, i)) + 2) =>
                 fn.region = Region(i + 1, c)

\* C21: a returned region lies within the text and below its first line,
\* startLine <= endLine, and the line before startLine is the first
\* introducer line of the text, whatever introducer lines follow it.
C21_RegionOfFirstIntroducer ==
  (Detected /\ fn.region # Undefined) =>
    LET lines == Split(fn.text)
    IN  /\ 1 <= fn.region.startLine
        /\ fn.region.startLine <= fn.region.endLine
        /\ fn.region.endLine <= Len(lines) - 1
        /\ FirstIntroducer(lines, fn.region.startLine - 1)

\* Two introducers: the first without a content line, the second with one.
C21_Witness ==
  /\ fn.op = "detectMQLRegion"
  /\ Split(fn.text) = <<LineSource0, LineX, LineSource2, LineB4>>
  /\ fn.region = Region(1, 1)

\* Host event number i asks for the formatting of a YAML document whose text
\* has no region.
FormatWithoutRegion(i) ==
  /\ events[i].kind = "format"
  /\ LanguageId(events[i].uri) = "yaml"
  /\ detectMQLRegion(events[i].text) = Undefined

\* C22: a formatting request for a YAML document whose current text has no
\* region is not forwarded (no handler waits for next) and returns undefined.
C22_FormatRefusedWithoutRegion ==
  \A i \in 1..Len(events) :
    FormatWithoutRegion(i) =>
      /\ events[i].sent = "none"
      /\ i = Len(events) =>
           /\ formatting[events[i].uri] = Undefined
           /\ (FormattingReturn /\ ret.uri = events[i].uri) =>
                ret = Returned("provideDocumentFormattingEdits", events[i].uri,
                               [version |-> events[i].version,
                                text |-> events[i].text],
                               Refused, Undefined)

C22_Witness ==
  /\ Len(events) = 3
  /\ events[1].kind = "open" /\ events[1].uri = YamlUri /\ events[1].region
  /\ events[2].kind = "change" /\ events[2].uri = YamlUri /\ events[2].sent = "ok"
  /\ FormatWithoutRegion(3)
  /\ IsReturn("provideDocumentFormattingEdits")
  /\ ret.value = Undefined

\* C23: when a formatting response for a YAML document arrives and the
\* document's text then has no region, the handler returns no edit and
\* throws nothing.
C23_SoftFailWithoutRegion ==
  (/\ FormattingReturn
   /\ LanguageId(ret.uri) = "yaml"
   /\ ret.arg \notin {Refused, Failed}
   /\ detectMQLRegion(ret.text) = Undefined) =>
    ret.value \in {Undefined, Null, Edits(<<>>)}

\* The step delivers a host event whose handler's send (or next) is rejected.
DeliversFailed ==
  /\ Len(events') = Len(events) + 1
  /\ events'[Len(events')].sent = "failed"

\* C24: a handler whose send is rejected leaves the cache and the opened-set
\* as they were when it started.
C24_FailedSendKeepsState ==
  [][DeliversFailed =>
       /\ embeddedMQLDocumentCache' = embeddedMQLDocumentCache
       /\ embeddedMQLOpenedYAMLDocuments' = embeddedMQLOpenedYAMLDocuments]_vars

\* The step removes the cache entry of u.
RemovesEntry(u) ==
  embeddedMQLDocumentCache[u] # Undefined /\ embeddedMQLDocumentCache'[u] = Undefined

\* The step is the didClose handler of u running its code after await next.
CloseFinishes(u) ==
  /\ pending # <<>>
  /\ Head(pending) = [handler |-> "didClose", uri |-> u, after |-> "drop"]
  /\ pending' = Tail(pending)

\* The step is cleanupEmbeddedMQL.
TearsDown == active /\ ~active'

\* C25 as stated: only the didClose handler of an entry's own uri removes it;
\* no other operation does, teardown included.
C25_RemovedOnlyByOwnClose ==
  [][\A u \in Uris : RemovesEntry(u) => CloseFinishes(u)]_vars

\* C25 amended: an entry is removed only by the didClose handler of its own
\* uri or by cleanupEmbeddedMQL, which clears the whole cache.
C25_RemovedOnlyByOwnCloseOrCleanup ==
  [][\A u \in Uris : RemovesEntry(u) => (CloseFinishes(u) \/ TearsDown)]_vars

\* The didClose handler has removed the entry that the open stored, after a
\* change, a formatting request or an event of the other document left it.
C25_Witness ==
  /\ Len(events) >= 3
  /\ events[1].kind = "open" /\ events[1].uri = YamlUri
  /\ events[2].kind # "close"
  /\ events[Len(events)].kind = "close"
  /\ events[Len(events)].uri = YamlUri
  /\ events[Len(events)].sent = "ok"
  /\ pending = <<>>
  /\ active
  /\ embeddedMQLDocumentCache[YamlUri] = Undefined

\* C26: between a host open of a YAML document and its next host close at
\* most one textDocument/didOpen is emitted for its uri.
C26_OneOpenPerPeriod ==
  \A i, j \in 1..Len(wire) :
    (/\ i < j
     /\ LanguageId(wire[i].uri) = "yaml"
     /\ IsMethod(wire[i], "textDocument/didOpen", wire[i].uri)
     /\ IsMethod(wire[j], "textDocument/didOpen", wire[i].uri)) =>
      ~SamePeriod(wire[i], wire[j])

\* The handler returned one edit for a one-edit response of the service.
ReturnedTransformedEdit ==
  /\ FormattingReturn
  /\ LanguageId(ret.uri) = "yaml"
  /\ IsEdits(ret.arg)
  /\ Len(ret.arg.edits) = 1
  /\ IsEdits(ret.value)
  /\ Len(ret.value.edits) = 1

\* C27: the returned edit has the range and the indentation of the region of
\* the document version the formatting request was forwarded for, also when
\* the document has changed since.
C27_EditOfRequestedVersion ==
  ReturnedTransformedEdit =>
    LET request     == events[LastFormat(ret.uri)]
        host        == Split(request.text)
        region      == detectMQLRegion(request.text)
        introducer  == At(host, region.startLine - 1)
        blockIndent == LeadingWhitespace(introducer) \o <<" ", " ">>
        edit        == ret.value.edits[1]
    IN  /\ edit.range.start = Position(region.startLine, 0)
        /\ edit.range.end = Position(region.endLine, Len(At(host, region.endLine)))
        /\ edit.newText =
             Join(Reindent(Split(ret.arg.edits[1].newText), blockIndent))

\* The notification next sends for a host event of a document that is not
\* YAML: the host's own, with the host's text.
Forwarded(e, ev) ==
  IF e.kind = "open" THEN Notification("textDocument/didOpen", e.uri, e.version, e.text, ev)
  ELSE IF e.kind = "change"
    THEN ChangeNotification(e.uri, e.version, <<[text |-> e.text]>>, ev)
  ELSE Notification("textDocument/didClose", e.uri, e.version, <<>>, ev)

\* The document events of u, by number, in order; the wire of u.
SyncEventsOf(u) ==
  SelectSeq([i \in 1..Len(events) |-> i],
            LAMBDA i : events[i].uri = u /\ events[i].kind # "format")

WireOf(u) == SelectSeq(wire, LAMBDA m : m.uri = u)

\* For every document that is not YAML: one forwarded notification per
\* document event and nothing else, a formatting response returned as it
\* came, and no entry in either collection.
NonYamlPassThrough ==
  \A u \in Uris :
    LanguageId(u) # "yaml" =>
      /\ WireOf(u) = [k \in 1..Len(SyncEventsOf(u)) |->
                        Forwarded(events[SyncEventsOf(u)[k]], SyncEventsOf(u)[k])]
      /\ (FormattingReturn /\ ret.uri = u /\ ret.arg \notin {Refused, Failed}) =>
           ret.value = ret.arg
      /\ embeddedMQLDocumentCache[u] = Undefined
      /\ u \notin embeddedMQLOpenedYAMLDocuments

\* A step of a handler for a document that is not YAML leaves both
\* collections as they are.
NonYamlFrame ==
  \A u \in Uris :
    (/\ LanguageId(u) # "yaml"
     /\ \/ Len(events') > Len(events) /\ events'[Len(events')].uri = u
        \/ formatting[u] # formatting'[u]) =>
      /\ embeddedMQLDocumentCache' = embeddedMQLDocumentCache
      /\ embeddedMQLOpenedYAMLDocuments' = embeddedMQLOpenedYAMLDocuments

\* C28: events of documents that are not YAML pass through: next sends the
\* host's notification once, unmodified, a formatting response is returned
\* unchanged, and neither collection is touched, so both hold YAML uris only.
C28_NonYamlPassThrough == []NonYamlPassThrough /\ [][NonYamlFrame]_vars

C28_Witness ==
  /\ FormattingReturn
  /\ ret.uri = MqlUri
  /\ IsEdits(ret.arg)
  /\ Len(ret.arg.edits) = 2
  /\ ret.value = ret.arg
  /\ Len(WireOf(MqlUri)) = 2
  /\ WireOf(MqlUri)[2].method = "textDocument/didChange"
  /\ embeddedMQLDocumentCache[YamlUri] # Undefined

\* The text after the host has replaced the edit's range by its newText.
ApplyEdit(text, edit) ==
  LET lines  == Split(text)
      start  == edit.range.start
      end    == edit.range.end
      before == SubSeq(lines, 1, start.line)
      head   == SubSeq(At(lines, start.line), 1, start.character)
      tail   == Drop(At(lines, end.line), end.character)
      after  == SubSeq(lines, end.line + 2, Len(lines))
  IN  Join(before \o <<head \o edit.newText \o tail>> \o after)

\* C29: once the transformer's edit is applied, detectMQLRegion finds a
\* region that starts where the region did before and spans every inserted
\* line.
C29_FormattedBlockDetected ==
  fn.op = "transform" =>
    LET inserted == Len(Split(fn.edit.newText))
        region   == detectMQLRegion(ApplyEdit(fn.text, fn.edit))
    IN  /\ region # Undefined
        /\ region.startLine = fn.region.startLine
        /\ region.endLine >= fn.region.startLine + inserted - 1

\* An indented block of two lines followed by a sibling key is replaced by
\* three lines, one of them blank.
C29_Witness ==
  /\ fn.op = "transform"
  /\ Split(fn.text) = <<LineX, LineSource2, LineB4, LineX>>
  /\ fn.newText = NewTextBlank
  /\ Split(ApplyEdit(fn.text, fn.edit)) =
       <<LineX, LineSource2, <<" ", " ", " ", " ", "a">>, <<>>,
         <<" ", " ", " ", " ", " ", " ", "b">>, LineX>>
  /\ detectMQLRegion(ApplyEdit(fn.text, fn.edit)) = Region(2, 4)

=============================================================================
